---- MODULE Spec2Model ----
(***************************************************************************)
(* Model of the QR composition engine of qrgen (src/imageComposer.js).     *)
(*                                                                         *)
(* Lengths that the code computes (canvas sizes, coordinates, text         *)
(* metrics) are held in tenths of a pixel, so that the 0.6 character       *)
(* factor and the divisions by two of the layout stay integral.  Option    *)
(* values (titleSize, imagePadding, qrSize, viewBox numbers) are pixels.   *)
(* A JavaScript object is a function from its present keys to values: an   *)
(* absent key is a key outside DOMAIN.  A string the code trims or counts  *)
(* is a sequence of one-character strings.                                 *)
(***************************************************************************)
EXTENDS Integers, Sequences, FiniteSets, TLC

VARIABLES op, args, result, now, store, req, res, client, page

\* The state of one call of the library, and the state of the server and of
\* the page that talks to it.
callVars == <<op, args, result>>
serverVars == <<now, store, req, res, client>>
pageVars == <<page>>
vars == <<op, args, result, now, store, req, res, client, page>>

\* Longest title, in characters, that a call is given.
MaxTitleLen == 2
\* Number of sessions the store can hold.
MaxSessions == 2
\* The last hour of the clock.
MaxClock == 26
\* Number of times the form of the page is submitted.
MaxSubmissions == 2
\* Number of clicks on the copy button.
MaxCopies == 2

Px(n) == n * 10
Max(a, b) == IF a >= b THEN a ELSE b

----------------------------------------------------------------------------
(* JavaScript values *)

NoOpts == [k \in {} |-> 0]
Has(o, k) == k \in DOMAIN o

\* Destructuring default `{ k = d } = o`: d only when o.k is undefined.
Default(o, k, d) == IF Has(o, k) THEN o[k] ELSE d
\* `o.k || d` on a number: d when o.k is undefined or 0.
NumOr(o, k, d) == IF Has(o, k) /\ o[k] # 0 THEN o[k] ELSE d
\* `o.k || d` on a string: d when o.k is undefined or ''.
StrOr(o, k, d) == IF Has(o, k) /\ o[k] # "" THEN o[k] ELSE d

RECURSIVE trimStart(_)
trimStart(s) == IF s # <<>> /\ Head(s) = " " THEN trimStart(Tail(s)) ELSE s
RECURSIVE trimEnd(_)
trimEnd(s) ==
    IF s # <<>> /\ s[Len(s)] = " " THEN trimEnd(SubSeq(s, 1, Len(s) - 1)) ELSE s
\* String.prototype.trim
trim(s) == trimEnd(trimStart(s))

\* Variant of TitleBlank that forgets to trim: `!title`.
TitleBlank_NoTrim(o) == ~Has(o, "title") \/ o["title"] = <<>>

\* `!title || title.trim() === ''`
TitleBlank(o) == ~Has(o, "title") \/ o["title"] = <<>> \/ trim(o["title"]) = <<>>

DefaultTitlePosition == "bottom"
DefaultTitleSize == 24
DefaultTitleColor == "#333333"
DefaultTitleFont == "Arial"
DefaultBackgroundColor == "#FFFFFF"
DefaultImagePadding == 20
DefaultQrSize == 256
\* options.quality || 0.92, in percent
DefaultQuality == 92

----------------------------------------------------------------------------
(* canvasUtils: a canvas is its size, its fill and the draw calls made on it *)

canvasUtils_createCanvas(width, height, backgroundColor) ==
    [width |-> width, height |-> height, backgroundColor |-> backgroundColor,
     drawn |-> <<>>]

\* The drawing engine's measurement of the text: ascent + descent for height.
canvasUtils_measureText(engine, text, font) ==
    [width |-> engine.width, height |-> engine.height]

canvasUtils_drawText(canvas, text, x, y, style) ==
    [canvas EXCEPT !.drawn =
        Append(@, [call |-> "fillText", text |-> text, x |-> x, y |-> y,
                   font |-> <<style.size, style.font>>, fillStyle |-> style.color,
                   textAlign |-> "center", textBaseline |-> "middle"])]

canvasUtils_drawImage(canvas, image, x, y, width, height) ==
    [canvas EXCEPT !.drawn =
        Append(@, [call |-> "drawImage", image |-> image, x |-> x, y |-> y,
                   width |-> width, height |-> height])]

----------------------------------------------------------------------------
(* compositionStrategies *)

titleTop(canvasConfig, qrImage, titleConfig, engine) ==
    LET padding == Px(canvasConfig.padding)
        text == titleConfig.text
        style == titleConfig.style
        textMetrics == canvasUtils_measureText(engine, text, <<style.size, style.font>>)
        qrSize == Px(canvasConfig.qrSize)
        totalWidth == Max(qrSize, textMetrics.width) + padding * 2
        totalHeight == qrSize + textMetrics.height + padding * 3
        canvas == canvasUtils_createCanvas(totalWidth, totalHeight,
                                           canvasConfig.backgroundColor)
        titleX == totalWidth \div 2
        titleY == padding + textMetrics.height \div 2
        withTitle == canvasUtils_drawText(canvas, text, titleX, titleY, style)
        qrX == (totalWidth - qrSize) \div 2
        qrY == padding + textMetrics.height + padding
    IN canvasUtils_drawImage(withTitle, qrImage, qrX, qrY, qrSize, qrSize)

titleBottom(canvasConfig, qrImage, titleConfig, engine) ==
    LET padding == Px(canvasConfig.padding)
        text == titleConfig.text
        style == titleConfig.style
        textMetrics == canvasUtils_measureText(engine, text, <<style.size, style.font>>)
        qrSize == Px(canvasConfig.qrSize)
        totalWidth == Max(qrSize, textMetrics.width) + padding * 2
        totalHeight == qrSize + textMetrics.height + padding * 3
        canvas == canvasUtils_createCanvas(totalWidth, totalHeight,
                                           canvasConfig.backgroundColor)
        qrX == (totalWidth - qrSize) \div 2
        qrY == padding
        withQr == canvasUtils_drawImage(canvas, qrImage, qrX, qrY, qrSize, qrSize)
        titleX == totalWidth \div 2
        titleY == padding + qrSize + padding + textMetrics.height \div 2
    IN canvasUtils_drawText(withQr, text, titleX, titleY, style)

----------------------------------------------------------------------------
(* createComposedImage *)

\* A raster buffer: the object (id) and whether loadImage can decode it.
SourceBuffer(decodable) == [id |-> "qrBuffer", decodable |-> decodable]
\* canvas.toBuffer('image/png'): a new buffer holding the encoded canvas.
toBuffer(canvas) == [id |-> "composed", decodable |-> TRUE, canvas |-> canvas]

Resolved(v, steps) == [status |-> "resolved", value |-> v, steps |-> steps]
Rejected(steps) == [status |-> "rejected", steps |-> steps]

\* Variant of SelectStrategy that tests for 'bottom' instead of 'top'.
SelectStrategy_NotBottom(titlePosition, canvasConfig, qrImage, titleConfig, engine) ==
    IF titlePosition # "bottom"
    THEN titleTop(canvasConfig, qrImage, titleConfig, engine)
    ELSE titleBottom(canvasConfig, qrImage, titleConfig, engine)

\* `titlePosition === 'top' ? titleTop : titleBottom`
SelectStrategy(titlePosition, canvasConfig, qrImage, titleConfig, engine) ==
    IF titlePosition = "top"
    THEN titleTop(canvasConfig, qrImage, titleConfig, engine)
    ELSE titleBottom(canvasConfig, qrImage, titleConfig, engine)

\* The body of the try block: loadImage, the strategy, toBuffer.  env.fault
\* names the step of the drawing library that throws, if any.
ComposeRaster(qrBuffer, options, env) ==
    LET canvasConfig ==
            [qrSize |-> Default(options, "qrSize", DefaultQrSize),
             padding |-> Default(options, "imagePadding", DefaultImagePadding),
             backgroundColor |->
                 Default(options, "backgroundColor", DefaultBackgroundColor)]
        titleConfig ==
            [text |-> trim(options["title"]),
             style |-> [size |-> Default(options, "titleSize", DefaultTitleSize),
                        color |-> Default(options, "titleColor", DefaultTitleColor),
                        font |-> Default(options, "titleFont", DefaultTitleFont)]]
        titlePosition == Default(options, "titlePosition", DefaultTitlePosition)
    IN IF ~qrBuffer.decodable
       THEN [threw |-> TRUE, steps |-> <<"loadImage">>]
       ELSE IF env.fault = "strategy"
       THEN [threw |-> TRUE, steps |-> <<"loadImage", "strategy">>]
       ELSE IF env.fault = "toBuffer"
       THEN [threw |-> TRUE, steps |-> <<"loadImage", "strategy", "toBuffer">>]
       ELSE [threw |-> FALSE, steps |-> <<"loadImage", "strategy", "toBuffer">>,
             value |-> toBuffer(SelectStrategy(titlePosition, canvasConfig,
                                               qrBuffer.id, titleConfig,
                                               env.engine))]

\* Variant of createComposedImage whose catch block rethrows.
createComposedImage_Rethrow(qrBuffer, options, env) ==
    IF TitleBlank(options)
    THEN Resolved(qrBuffer, <<>>)
    ELSE LET r == ComposeRaster(qrBuffer, options, env)
         IN IF r.threw THEN Rejected(r.steps)
                       ELSE Resolved(r.value, r.steps)

createComposedImage(qrBuffer, options, env) ==
    IF TitleBlank(options)
    THEN Resolved(qrBuffer, <<>>)
    ELSE LET r == ComposeRaster(qrBuffer, options, env)
         IN IF r.threw THEN Resolved(qrBuffer, r.steps)
                       ELSE Resolved(r.value, r.steps)

----------------------------------------------------------------------------
(* svgUtils *)

\* SVG markup as the parser sees it: whether it is well-formed XML, the tag of
\* its root element, the root's attributes and the root's inner markup.
SourceSvg(wellFormed, root, attrs) ==
    [id |-> "qrData", wellFormed |-> wellFormed, root |-> root, attrs |-> attrs,
     inner |-> "qr-modules"]

DefaultViewBox == <<0, 0, 256, 256>>

\* An attribute value is a sequence of tokens: numerals and separator
\* characters.  The numerals that occur in the model, and their values:
Numerals == {"0", "4", "20", "29", "40", "256", "300"}

NumeralValue(t) ==
    CASE t = "0" -> 0
      [] t = "4" -> 4
      [] t = "20" -> 20
      [] t = "40" -> 40
      [] t = "29" -> 29
      [] t = "256" -> 256
      [] t = "300" -> 300

\* The results of Number() and of array destructuring that are not numbers.
NaN == 0 - 1
Undefined == 0 - 2

\* Variant of split that does not split at all.
split_Whole(s, sep) == <<s>>

\* String.prototype.split(sep): the pieces between the occurrences of sep, an
\* empty piece between two adjacent ones.
RECURSIVE split(_, _)
split(s, sep) ==
    IF s = <<>> THEN << <<>> >>
    ELSE IF Head(s) = sep THEN << <<>> >> \o split(Tail(s), sep)
    ELSE LET rest == split(Tail(s), sep)
         IN << <<Head(s)>> \o Head(rest) >> \o Tail(rest)

\* Number(piece): 0 for the empty string, the value of a numeral, NaN for
\* anything else (no attribute of the model has two adjacent numerals).
Number(piece) ==
    IF piece = <<>> THEN 0
    ELSE IF Len(piece) = 1 /\ piece[1] \in Numerals THEN NumeralValue(piece[1])
    ELSE NaN

\* new JSDOM(...) throws on markup that is not well-formed; querySelector('svg')
\* is null without an svg element, and null.getAttribute throws.  getAttribute
\* gives null for an absent viewBox and '' for an empty one, both falsy.
parseSVG(svgString) ==
    IF ~svgString.wellFormed THEN [threw |-> TRUE]
    ELSE IF svgString.root # "svg" THEN [threw |-> TRUE]
    ELSE LET viewBox == IF Has(svgString.attrs, "viewBox")
                        THEN svgString.attrs["viewBox"]
                        ELSE <<>>
             pieces == split(viewBox, " ")
             numbers == IF viewBox # <<>>
                        THEN [i \in 1..Len(pieces) |-> Number(pieces[i])]
                        ELSE DefaultViewBox
             At(i) == IF i <= Len(numbers) THEN numbers[i] ELSE Undefined
         IN [threw |-> FALSE,
             value |-> [element |-> [tag |-> "svg", innerHTML |-> svgString.inner],
                        document |-> svgString.id,
                        viewBox |-> [x |-> At(1), y |-> At(2),
                                     width |-> At(3), height |-> At(4)],
                        originalWidth |-> At(3),
                        originalHeight |-> At(4)]]

\* Variant of estimateTextDimensions with a character width of half the size.
estimateTextDimensions_HalfWidth(textConfig) ==
    LET charWidth == textConfig.size * 5
    IN [width |-> Len(textConfig.text) * charWidth, height |-> Px(textConfig.size)]

\* width = text.length * (size * 0.6), height = size; in tenths of a pixel.
estimateTextDimensions(textConfig) ==
    LET charWidth == textConfig.size * 6
    IN [width |-> Len(textConfig.text) * charWidth, height |-> Px(textConfig.size)]

\* Variant of EnhancedScale without the minimum of 2.
EnhancedScale_NoClamp(qrWidth, viewBoxWidth) ==
    [num |-> qrWidth, den |-> viewBoxWidth]

\* Math.max(qrWidth / viewBox.width, 2) as a fraction num/den.
EnhancedScale(qrWidth, viewBoxWidth) ==
    IF qrWidth >= 2 * viewBoxWidth
    THEN [num |-> qrWidth, den |-> viewBoxWidth]
    ELSE [num |-> 2, den |-> 1]

Times(length, scale) == (length * scale.num) \div scale.den

\* Variant of svgTotalWidth that sizes the document by the QR alone.
svgTotalWidth_NoMax(qrWidth, textWidth, padding) == qrWidth + padding * 2

\* Math.max(qrWidth, textDimensions.width) + padding * 2
svgTotalWidth(qrWidth, textWidth, padding) == Max(qrWidth, textWidth) + padding * 2

\* Variant of svgTotalHeight that counts two paddings instead of three.
svgTotalHeight_TwoPads(qrHeight, textHeight, padding) ==
    qrHeight + textHeight + padding * 2

\* qrHeight + textDimensions.height + padding * 3
svgTotalHeight(qrHeight, textHeight, padding) == qrHeight + textHeight + padding * 3

\* Variant of svgQrX that puts the QR box at the left edge.
svgQrX_Left(totalWidth, qrWidth) == 0

\* (totalWidth - qrWidth) / 2
svgQrX(totalWidth, qrWidth) == (totalWidth - qrWidth) \div 2

\* Variant of svgTextY that leaves out the gap between QR and title.
svgTextY_NoGap(position, padding, qrHeight, textHeight) ==
    IF position = "top"
    THEN padding + textHeight \div 2
    ELSE padding + qrHeight + textHeight \div 2

\* textY of the `if (position === 'top')` statement
svgTextY(position, padding, qrHeight, textHeight) ==
    IF position = "top"
    THEN padding + textHeight \div 2
    ELSE padding + qrHeight + padding + textHeight \div 2

\* Variant of svgQrY that leaves no padding between the title and the QR.
svgQrY_NoGap(position, padding, textHeight) ==
    IF position = "top" THEN padding + textHeight ELSE padding

\* qrY of the `if (position === 'top')` statement
svgQrY(position, padding, textHeight) ==
    IF position = "top" THEN padding + textHeight + padding ELSE padding

\* Variant of svgBackgroundRect that tests only `backgroundColor !== '#FFFFFF'`.
svgBackgroundRect_NoTruthiness(backgroundColor, totalWidth, totalHeight) ==
    IF backgroundColor # "#FFFFFF"
    THEN <<[tag |-> "rect", width |-> totalWidth, height |-> totalHeight,
            fill |-> backgroundColor]>>
    ELSE <<>>

\* `if (backgroundColor && backgroundColor !== '#FFFFFF')`: the rect markup, or
\* nothing.  An undefined backgroundColor is held as '' (both are falsy).
svgBackgroundRect(backgroundColor, totalWidth, totalHeight) ==
    IF backgroundColor # "" /\ backgroundColor # "#FFFFFF"
    THEN <<[tag |-> "rect", width |-> totalWidth, height |-> totalHeight,
            fill |-> backgroundColor]>>
    ELSE <<>>

\* Variant of svgChildren that writes the text node before the group.
svgChildren_TextFirst(rect, group, text) == rect \o <<text, group>>

\* The pieces appended to svgContent between the root tags, in order.
svgChildren(rect, group, text) == rect \o <<group, text>>

\* The characters that start markup in XML character data.
MarkupChars == {"<", "&"}

\* What an XML parser (parseSVG reads image/svg+xml) takes as text from
\* character data written as it is: the characters before the first one
\* that starts markup.
RECURSIVE CharacterData(_)
CharacterData(raw) ==
    IF raw = <<>> THEN <<>>
    ELSE IF Head(raw) \in MarkupChars THEN <<>>
    ELSE <<Head(raw)>> \o CharacterData(Tail(raw))

\* The try block of composeWithTitle.  svgInfo.element has tag "null" when the
\* caller hands over no element: element.innerHTML then throws.  The value is
\* the emitted document; locals holds the layout box the code computed for the
\* QR before the scale adjustment (it is not part of the markup).
ComposeSvg(svgInfo, titleConfig, compositionConfig) ==
    LET element == svgInfo.element
        viewBox == svgInfo.viewBox
        text == titleConfig.text
        style == titleConfig.style
        position == Default(compositionConfig, "position", "undefined")
        padding == Px(compositionConfig["padding"])
        backgroundColor == Default(compositionConfig, "backgroundColor", "")
        textDimensions ==
            estimateTextDimensions([text |-> text, size |-> style.size,
                                    font |-> style.font])
        qrWidth == Px(NumOr(compositionConfig, "qrSize", viewBox.width))
        qrHeight == Px(NumOr(compositionConfig, "qrSize", viewBox.height))
        totalWidth == svgTotalWidth(qrWidth, textDimensions.width, padding)
        totalHeight == svgTotalHeight(qrHeight, textDimensions.height, padding)
        qrX == svgQrX(totalWidth, qrWidth)
        textX == totalWidth \div 2
        textY == svgTextY(position, padding, qrHeight, textDimensions.height)
        qrY == svgQrY(position, padding, textDimensions.height)
        rect == svgBackgroundRect(backgroundColor, totalWidth, totalHeight)
        enhancedScale == EnhancedScale(qrWidth, Px(viewBox.width))
        scaledQrX == qrX + (qrWidth - Times(Px(viewBox.width), enhancedScale)) \div 2
        scaledQrY == qrY + (qrHeight - Times(Px(viewBox.height), enhancedScale)) \div 2
    IN IF element.tag = "null" THEN [threw |-> TRUE]
       ELSE [threw |-> FALSE,
             value |->
               [id |-> "composed",
                viewBox |-> <<0, 0, totalWidth, totalHeight>>,
                width |-> totalWidth, height |-> totalHeight,
                children |->
                  svgChildren(
                    rect,
                    [tag |-> "g",
                     transform |-> [translate |-> <<scaledQrX, scaledQrY>>,
                                    scale |-> enhancedScale],
                     innerHTML |-> element.innerHTML],
                    [tag |-> "text", x |-> textX, y |-> textY,
                     textAnchor |-> "middle", dominantBaseline |-> "central",
                     fontFamily |-> style.font, fontSize |-> style.size,
                     fill |-> style.color, content |-> text]),
                locals |-> [qrX |-> qrX, qrY |-> qrY, qrWidth |-> qrWidth,
                            qrHeight |-> qrHeight]]]

\* try { ... } catch (error) { console.error(...); throw error; }
composeWithTitle(svgInfo, titleConfig, compositionConfig) ==
    LET r == ComposeSvg(svgInfo, titleConfig, compositionConfig)
    IN IF r.threw THEN [threw |-> TRUE] ELSE r

----------------------------------------------------------------------------
(* formatComposers *)

DataUri(prefix, buffer) == [prefix |-> prefix, base64 |-> buffer]

formatComposers_png(qrBuffer, options, env) ==
    LET r == createComposedImage(qrBuffer, options, env)
    IN IF r.status = "rejected" THEN r
       ELSE Resolved(DataUri("data:image/png;base64,", r.value), r.steps)

\* loadImage(composedBuffer) is awaited outside any try block.
formatComposers_jpg(qrBuffer, options, env) ==
    LET r == createComposedImage(qrBuffer, options, env)
    IN IF r.status = "rejected" THEN r
       ELSE IF ~r.value.decodable
       THEN Rejected(Append(r.steps, "loadImage"))
       ELSE Resolved(
              DataUri("data:image/jpeg;base64,",
                      [id |-> "jpeg", decodable |-> TRUE, image |-> r.value,
                       quality |-> NumOr(options, "quality", DefaultQuality)]),
              Append(r.steps, "loadImage"))

formatComposers_base64(qrBuffer, options, env) ==
    LET r == createComposedImage(qrBuffer, options, env)
    IN IF r.status = "rejected" THEN r
       ELSE Resolved(DataUri("", r.value), r.steps)

\* The try block of formatComposers.svg
SvgTitled(qrData, options) ==
    LET svgInfo == parseSVG(qrData)
        titleConfig ==
            [text |-> trim(options["title"]),
             style |-> [size |-> NumOr(options, "titleSize", DefaultTitleSize),
                        color |-> StrOr(options, "titleColor", DefaultTitleColor),
                        font |-> StrOr(options, "titleFont", DefaultTitleFont)]]
        compositionConfig ==
            [position |-> StrOr(options, "titlePosition", DefaultTitlePosition),
             padding |-> NumOr(options, "imagePadding", DefaultImagePadding),
             backgroundColor |->
                 StrOr(options, "backgroundColor", DefaultBackgroundColor),
             qrSize |-> NumOr(options, "qrSize", DefaultQrSize)]
    IN IF svgInfo.threw THEN [threw |-> TRUE, steps |-> <<"parseSVG">>]
       ELSE LET c == composeWithTitle(svgInfo.value, titleConfig, compositionConfig)
            IN IF c.threw
               THEN [threw |-> TRUE, steps |-> <<"parseSVG", "composeWithTitle">>]
               ELSE [threw |-> FALSE, steps |-> <<"parseSVG", "composeWithTitle">>,
                     value |-> c.value]

\* `!options || !options.title || options.title.trim() === ''`
SvgNoTitle(options) ==
    ~Has(options, "title") \/ options["title"] = <<>> \/ trim(options["title"]) = <<>>

\* Variant of formatComposers.svg without the catch block.
formatComposers_svg_NoCatch(qrData, options) ==
    IF SvgNoTitle(options)
    THEN Resolved(qrData, <<>>)
    ELSE LET r == SvgTitled(qrData, options)
         IN IF r.threw THEN Rejected(r.steps)
                       ELSE Resolved(r.value, r.steps)

formatComposers_svg(qrData, options) ==
    IF SvgNoTitle(options)
    THEN Resolved(qrData, <<>>)
    ELSE LET r == SvgTitled(qrData, options)
         IN IF r.threw THEN Resolved(qrData, r.steps)
                       ELSE Resolved(r.value, r.steps)

----------------------------------------------------------------------------
(* qrGenerators *)

\* The compositionOptions of a request without a title.
Null == [null |-> TRUE]

\* `compositionOptions && compositionOptions.title`: a non-empty string.
HasTruthyTitle(compositionOptions) ==
    /\ compositionOptions # Null
    /\ Has(compositionOptions, "title")
    /\ compositionOptions["title"] # <<>>

\* `{ ...compositionOptions, qrSize: options.width }`; a key whose value is
\* undefined is held as an absent key.
WithQrSize(compositionOptions, options) ==
    LET spread == IF compositionOptions = Null THEN NoOpts ELSE compositionOptions
        others == [k \in DOMAIN spread \ {"qrSize"} |-> spread[k]]
    IN IF Has(options, "width") THEN ("qrSize" :> options["width"]) @@ others
       ELSE others

\* `{ ..., qrSize: options.width, quality: options.quality }`
WithQrSizeAndQuality(compositionOptions, options) ==
    LET sized == WithQrSize(compositionOptions, options)
        others == [k \in DOMAIN sized \ {"quality"} |-> sized[k]]
    IN IF Has(options, "quality") THEN ("quality" :> options["quality"]) @@ others
       ELSE others

\* The QR encoder (the qrcode package), as far as the callers depend on it.
\* encoder.fails: it rejects (for instance a text beyond the capacity of a QR
\* symbol).  encoder.jpegDataUrl: whether toDataURL honours type 'image/jpeg'
\* or renders a PNG data URL whatever the type.  encoder.sized: whether the
\* SVG markup carries width and height attributes.
QRCode_toBuffer(text, options, encoder) ==
    IF encoder.fails THEN Rejected(<<"QRCode">>)
    ELSE Resolved(SourceBuffer(TRUE), <<"QRCode">>)

QRCode_toDataURL(text, options, encoder) ==
    IF encoder.fails THEN Rejected(<<"QRCode">>)
    ELSE IF encoder.jpegDataUrl
    THEN Resolved(DataUri("data:image/jpeg;base64,",
                          [id |-> "jpeg", decodable |-> TRUE]), <<"QRCode">>)
    ELSE Resolved(DataUri("data:image/png;base64,", SourceBuffer(TRUE)), <<"QRCode">>)

\* The viewBox of the encoder's markup counts the modules of the symbol.
QRCode_toString(text, svgOptions, encoder) ==
    IF encoder.fails THEN Rejected(<<"QRCode">>)
    ELSE LET viewBox == [viewBox |-> <<"0", " ", "0", " ", "29", " ", "29">>]
             size == [width |-> svgOptions.width, height |-> svgOptions.width]
         IN Resolved(SourceSvg(TRUE, "svg",
                               IF encoder.sized THEN size @@ viewBox ELSE viewBox),
                     <<"QRCode">>)

\* The two replace calls: every width and height attribute is removed, then
\* width and height are added to the root tag.
SetWidthAndHeight(svgData, width) ==
    LET kept == [k \in DOMAIN svgData.attrs \ {"width", "height"} |-> svgData.attrs[k]]
    IN [svgData EXCEPT !.attrs = [width |-> width, height |-> width] @@ kept]

\* A promise settled after another one: the steps of both.
After(first, second) ==
    IF second.status = "rejected" THEN Rejected(first.steps \o second.steps)
    ELSE Resolved(second.value, first.steps \o second.steps)

qrGenerators_png(text, options, compositionOptions, env) ==
    LET buffer == QRCode_toBuffer(text, options, env.encoder)
    IN IF buffer.status = "rejected" THEN buffer
       ELSE IF HasTruthyTitle(compositionOptions)
       THEN After(buffer,
                  formatComposers_png(buffer.value,
                                      WithQrSize(compositionOptions, options), env))
       ELSE Resolved(DataUri("data:image/png;base64,", buffer.value), buffer.steps)

qrGenerators_jpg(text, options, compositionOptions, env) ==
    LET buffer == QRCode_toBuffer(text, options, env.encoder)
    IN IF buffer.status = "rejected" THEN buffer
       ELSE IF HasTruthyTitle(compositionOptions)
       THEN After(buffer,
                  formatComposers_jpg(buffer.value,
                                      WithQrSizeAndQuality(compositionOptions, options),
                                      env))
       ELSE After(buffer, QRCode_toDataURL(text, options, env.encoder))

qrGenerators_jpeg(text, options, compositionOptions, env) ==
    qrGenerators_jpg(text, options, compositionOptions, env)

\* `options.width && (!compositionOptions || !compositionOptions.title)`
NormalisesSize(options, compositionOptions) ==
    /\ Has(options, "width") /\ options["width"] # 0
    /\ ~HasTruthyTitle(compositionOptions)

qrGenerators_svg(text, options, compositionOptions, env) ==
    LET svgOptions == [type |-> "svg", width |-> NumOr(options, "width", DefaultQrSize)]
        encoded == QRCode_toString(text, svgOptions, env.encoder)
    IN IF encoded.status = "rejected" THEN encoded
       ELSE LET svgData == IF NormalisesSize(options, compositionOptions)
                           THEN SetWidthAndHeight(encoded.value, options["width"])
                           ELSE encoded.value
            IN After(encoded,
                     formatComposers_svg(svgData, WithQrSize(compositionOptions, options)))

\* Variant of qrGenerators.base64 that wraps the buffer as a PNG data URI.
qrGenerators_base64_Prefixed(text, options, compositionOptions, env) ==
    qrGenerators_png(text, options, compositionOptions, env)

qrGenerators_base64(text, options, compositionOptions, env) ==
    LET buffer == QRCode_toBuffer(text, options, env.encoder)
    IN IF buffer.status = "rejected" THEN buffer
       ELSE IF HasTruthyTitle(compositionOptions)
       THEN After(buffer,
                  formatComposers_base64(buffer.value,
                                         WithQrSize(compositionOptions, options), env))
       ELSE Resolved(DataUri("", buffer.value), buffer.steps)

qrGenerators_default(text, options, compositionOptions, env) ==
    qrGenerators_png(text, options, compositionOptions, env)

\* The own properties of the qrGenerators object.
GeneratorNames == {"png", "jpg", "jpeg", "svg", "base64", "default"}

\* qrGenerators[name](text, options, compositionOptions)
qrGenerators(name, text, options, compositionOptions, env) ==
    CASE name = "png" -> qrGenerators_png(text, options, compositionOptions, env)
      [] name = "jpg" -> qrGenerators_jpg(text, options, compositionOptions, env)
      [] name = "jpeg" -> qrGenerators_jpeg(text, options, compositionOptions, env)
      [] name = "svg" -> qrGenerators_svg(text, options, compositionOptions, env)
      [] name = "base64" -> qrGenerators_base64(text, options, compositionOptions, env)
      [] name = "default" -> qrGenerators_default(text, options, compositionOptions, env)

----------------------------------------------------------------------------
(* server *)

\* cookie.maxAge of the session middleware and maxAge of validateSession, in
\* hours (24 * 60 * 60 * 1000 ms).
MaxAgeHours == 24

DefaultSize == 256
DefaultFormat == "png"

SessionIds == 1..MaxSessions

\* The request carries the cookie of a session that the store still holds.
KnownSession(cookie, sessions, clock) ==
    /\ cookie.kind = "sid"
    /\ cookie.sid \in DOMAIN sessions
    /\ sessions[cookie.sid].expires > clock

Without(sessions, sid) == [s \in DOMAIN sessions \ {sid} |-> sessions[s]]

\* The store drops a session it finds expired when it looks it up.
Purged(cookie, sessions, clock) ==
    IF cookie.kind = "sid" /\ cookie.sid \in DOMAIN sessions
       /\ sessions[cookie.sid].expires <= clock
    THEN Without(sessions, cookie.sid)
    ELSE sessions

\* At the end of a response the session is stored and its expiry moved on.
Saved(sessions, sid, session, clock) ==
    (sid :> [session |-> session, expires |-> clock + MaxAgeHours]) @@ sessions

\* Variant of InitialiseSession that leaves the session as it is.
InitialiseSession_Keep(session, clientId, clock) == session

\* `if (!req.session || !req.session.initialized) { ... }`
InitialiseSession(session, clientId, clock) ==
    IF ~Has(session, "initialized") \/ ~session["initialized"]
    THEN [initialized |-> TRUE, clientId |-> clientId, createdAt |-> clock] @@ session
    ELSE session

\* Variant of SessionExpired that also expires a session of exactly maxAge.
SessionExpired_AtLeast(session, clock) ==
    /\ Has(session, "createdAt")
    /\ clock - session["createdAt"] >= MaxAgeHours

\* `req.session.createdAt` is set and `sessionAge > maxAge`
SessionExpired(session, clock) ==
    /\ Has(session, "createdAt")
    /\ clock - session["createdAt"] > MaxAgeHours

\* Variant of TextMissing that accepts an empty text.
TextMissing_AbsentOnly(body) == ~Has(body, "text")

\* `!text`
TextMissing(body) == ~Has(body, "text") \/ body["text"] = ""

\* The members of Object.prototype that the requests of the model name.
InheritedNames == {"constructor", "toString"}

\* `qrGenerators[format] || qrGenerators.default`: an own property, a member
\* inherited from Object.prototype, or the default generator.
Lookup(body) ==
    IF Has(body, "format") /\ body["format"] \in GeneratorNames
    THEN [kind |-> "generator", name |-> body["format"]]
    ELSE IF Has(body, "format") /\ body["format"] \in InheritedNames
    THEN [kind |-> "inherited", name |-> body["format"]]
    ELSE [kind |-> "generator", name |-> "default"]

\* Object(text) is a String object, which res.json writes as the text;
\* Object.prototype.toString called without a receiver gives
\* '[object Undefined]'.
InheritedResult(name, text) ==
    IF name = "constructor" THEN [id |-> "string", text |-> text]
    ELSE [id |-> "string", text |-> "[object Undefined]"]

\* `await generator(text, options, compositionOptions)`
Invoke(member, text, options, compositionOptions, env) ==
    IF member.kind = "generator"
    THEN qrGenerators(member.name, text, options, compositionOptions, env)
    ELSE Resolved(InheritedResult(member.name, text), <<>>)

\* The handler of POST /generate-qr: the response, and the member of
\* qrGenerators it invoked.
generateQr(body, env) ==
    IF TextMissing(body)
    THEN [status |-> 400, body |-> [error |-> "Text is required"],
          invoked |-> [kind |-> "none"]]
    ELSE LET options == [type |-> "image/png",
                         quality |-> Default(body, "quality", DefaultQuality),
                         width |-> Default(body, "size", DefaultSize)]
             compositionOptions ==
                 IF Has(body, "title") /\ body["title"] # <<>>
                 THEN [title |-> body["title"],
                       titlePosition |->
                           Default(body, "titlePosition", DefaultTitlePosition),
                       titleSize |-> Default(body, "titleSize", DefaultTitleSize),
                       titleColor |-> Default(body, "titleColor", DefaultTitleColor),
                       titleFont |-> Default(body, "titleFont", DefaultTitleFont),
                       backgroundColor |->
                           Default(body, "backgroundColor", DefaultBackgroundColor),
                       imagePadding |->
                           Default(body, "imagePadding", DefaultImagePadding)]
                 ELSE Null
             generator == Lookup(body)
             result_ == Invoke(generator, body["text"], options, compositionOptions, env)
         IN IF result_.status = "rejected"
            THEN [status |-> 500, body |-> [error |-> "Failed to generate QR code"],
                  invoked |-> generator]
            ELSE [status |-> 200,
                  body |-> [success |-> TRUE, data |-> result_.value,
                            format |-> StrOr(body, "format", DefaultFormat)],
                  invoked |-> generator]

----------------------------------------------------------------------------
(* format handlers of the page *)

\* A string as the parts it is put together from: a data URI is its prefix
\* followed by the base64 text of a buffer.
StringParts(data) ==
    IF data.prefix = "" THEN <<data.base64>> ELSE <<data.prefix, data.base64>>

\* `data:image/png;base64,${data}`
toBase64DataUrl(data) == <<"data:image/png;base64,">> \o StringParts(data)

HandlerFormats == {"png", "jpg", "jpeg", "svg", "base64"}

\* registry.get(format) || fallback
getHandler(format) == IF format \in HandlerFormats THEN format ELSE "png"

\* handler.display(data, container): what the container then holds.
display(handler, data) ==
    CASE handler = "base64" -> [tag |-> "img", src |-> toBase64DataUrl(data)]
      [] handler = "svg" -> [tag |-> "svg", innerHTML |-> data]
      [] OTHER -> [tag |-> "img", src |-> StringParts(data)]

\* handler.download(data, format): href and filename.
download(handler, data, format) ==
    CASE handler = "base64" ->
             [href |-> toBase64DataUrl(data), filename |-> <<"qrcode.", "png">>]
      [] handler = "svg" ->
             [href |-> <<"blob:", data>>, filename |-> <<"qrcode.", "svg">>]
      [] OTHER -> [href |-> StringParts(data), filename |-> <<"qrcode.", format>>]

----------------------------------------------------------------------------
(* Inputs of the calls *)

\* The characters of a title: a space, a letter and a markup character.
Chars == {" ", "a", "<"}
Titles == UNION {[1..n -> Chars] : n \in 0..MaxTitleLen}

\* The objects { } and { k: v } for v in S.
OptField(k, S) == {NoOpts} \cup {k :> v : v \in S}

StyleOptions ==
    {NoOpts,
     [backgroundColor |-> "#FFFFFF"],
     [titleColor |-> "#FF0000", titleFont |-> "Helvetica",
      backgroundColor |-> "#F0F0F0"]}

LayoutOptions ==
    {t @@ p @@ s @@ i @@ q @@ c :
        t \in OptField("title", Titles),
        p \in OptField("titlePosition", {"top", "bottom", "", "left"}),
        s \in OptField("titleSize", {250}),
        i \in OptField("imagePadding", {0, 10}),
        q \in OptField("qrSize", {40, 100}),
        c \in StyleOptions}

\* What the drawing engine measures for the (non-blank) title: narrower or
\* wider than every QR size, with a positive glyph height.
Engines == {[width |-> Px(30), height |-> Px(18)],
            [width |-> Px(300), height |-> Px(18)]}

RasterEnvs == {[fault |-> f, engine |-> e] :
                  f \in {"none", "strategy", "toBuffer"}, e \in Engines}

\* An undecodable buffer never reaches the engine: one environment suffices.
RasterInputs ==
    {<<SourceBuffer(TRUE), e>> : e \in RasterEnvs}
    \cup {<<SourceBuffer(FALSE),
            [fault |-> "none", engine |-> [width |-> Px(30), height |-> Px(18)]]>>}

SvgSources ==
    {SourceSvg(FALSE, "svg", NoOpts),
     SourceSvg(TRUE, "html", NoOpts),
     SourceSvg(TRUE, "svg", NoOpts),
     SourceSvg(TRUE, "svg", [viewBox |-> <<"0", " ", "0", " ", "29", " ", "29">>]),
     SourceSvg(TRUE, "svg", [viewBox |-> <<"0", " ", "0", " ", "300", " ", "300">>])}

\* What parseSVG is given directly: also a viewBox with an origin other than 0,
\* an empty one, and ones separated by commas, by two spaces, or with three
\* numbers only.
ParseSources ==
    SvgSources
    \cup {SourceSvg(TRUE, "svg", [viewBox |-> v]) :
            v \in {<<"4", " ", "4", " ", "29", " ", "256">>,
                   <<>>,
                   <<"0", ",", "0", ",", "29", ",", "29">>,
                   <<"0", " ", " ", "0", " ", "29", " ", "29">>,
                   <<"0", " ", "0", " ", "29">>}}

\* The encoder: failing, or succeeding in each of its renderings.
Encoders ==
    {[fails |-> TRUE, jpegDataUrl |-> TRUE, sized |-> TRUE]}
    \cup {[fails |-> FALSE, jpegDataUrl |-> j, sized |-> z] : j, z \in BOOLEAN}

GeneratorEnvs ==
    {[encoder |-> c, fault |-> f, engine |-> e] :
        c \in Encoders, f \in {"none", "toBuffer"}, e \in Engines}

\* The options of a generator: the width of the symbol and the JPEG quality.
GeneratorOptions ==
    {w @@ q : w \in OptField("width", {100}), q \in OptField("quality", {50})}

\* null, or the composition options of a request.
GeneratorCompositions ==
    {Null}
    \cup {t @@ p @@ c :
            t \in OptField("title", Titles),
            p \in OptField("titlePosition", {"top"}),
            c \in StyleOptions}

\* The textConfig objects estimateTextDimensions is given.
TextConfigs ==
    {[text |-> t, size |-> s, color |-> "#333333", font |-> f] :
        t \in Titles, s \in {20, 24, 250}, f \in {"Arial", "Helvetica", "Courier New"}}

\* What a direct caller of composeWithTitle passes: a parsed document, or an
\* info object without an element.
SvgInfos ==
    {parseSVG(d).value : d \in {x \in SvgSources : ~parseSVG(x).threw}}
    \cup {parseSVG(SourceSvg(TRUE, "svg",
                             [viewBox |-> <<"4", " ", "4", " ", "20", " ", "40">>])).value}
    \cup {[element |-> [tag |-> "null"], document |-> "none",
           viewBox |-> [x |-> 0, y |-> 0, width |-> 256, height |-> 256],
           originalWidth |-> 256, originalHeight |-> 256]}

TitleConfigs ==
    {[text |-> t, style |-> [size |-> s, color |-> c[1], font |-> c[2]]] :
        t \in Titles, s \in {20, 250},
        c \in {<<"#333333", "Arial">>, <<"#000000", "Helvetica">>}}

CompositionConfigs ==
    {[padding |-> i] @@ p @@ b @@ q :
        i \in {0, 15},
        p \in OptField("position", {"top", "bottom", "left"}),
        b \in OptField("backgroundColor", {"#FFFFFF", "#F0F0F0", ""}),
        q \in OptField("qrSize", {40, 100})}

----------------------------------------------------------------------------
(* The calls *)

\* The cookie of a request: none, one the server does not recognise, or the
\* one of a session.
Cookies ==
    {[kind |-> "none"], [kind |-> "bogus"]}
    \cup {[kind |-> "sid", sid |-> i] : i \in SessionIds}

\* The bodies of the requests: text, format and title, each possibly absent.
Bodies ==
    {t @@ f @@ c :
        t \in OptField("text", {"", "hello"}),
        f \in OptField("format", GeneratorNames \cup InheritedNames \cup {"gif"}),
        c \in OptField("title", {<<>>, <<" ">>, <<"a">>})}

ServerEnvs ==
    {[encoder |-> c, fault |-> "none", engine |-> [width |-> Px(30), height |-> Px(18)]] :
        c \in Encoders}

\* The formats the form of the page offers.
FormFormats == {"png", "jpg", "svg", "base64"}

NoRequest == [pc |-> "idle"]
NoResponse == [status |-> 0]
NoPage == [shown |-> FALSE]

\* The page before DOMContentLoaded.
NotLoaded == [ready |-> FALSE]

Init ==
    /\ op = "idle"
    /\ args = NoOpts
    /\ result = [status |-> "none"]
    /\ now = 0
    /\ store = NoOpts
    /\ req = NoRequest
    /\ res = NoResponse
    /\ client = NoPage
    /\ page = NotLoaded

CallCreateComposedImage ==
    /\ op = "idle"
    /\ \E in \in RasterInputs, o \in LayoutOptions :
        /\ op' = "createComposedImage"
        /\ args' = [qrBuffer |-> in[1], options |-> o, env |-> in[2]]
        /\ result' = createComposedImage(in[1], o, in[2])
    /\ UNCHANGED <<serverVars, pageVars>>

CallPng ==
    /\ op = "idle"
    /\ \E in \in RasterInputs, o \in LayoutOptions :
        /\ op' = "png"
        /\ args' = [qrBuffer |-> in[1], options |-> o, env |-> in[2]]
        /\ result' = formatComposers_png(in[1], o, in[2])
    /\ UNCHANGED <<serverVars, pageVars>>

CallJpg ==
    /\ op = "idle"
    /\ \E in \in RasterInputs, o \in LayoutOptions :
        /\ op' = "jpg"
        /\ args' = [qrBuffer |-> in[1], options |-> o, env |-> in[2]]
        /\ result' = formatComposers_jpg(in[1], o, in[2])
    /\ UNCHANGED <<serverVars, pageVars>>

CallBase64 ==
    /\ op = "idle"
    /\ \E in \in RasterInputs, o \in LayoutOptions :
        /\ op' = "base64"
        /\ args' = [qrBuffer |-> in[1], options |-> o, env |-> in[2]]
        /\ result' = formatComposers_base64(in[1], o, in[2])
    /\ UNCHANGED <<serverVars, pageVars>>

CallSvg ==
    /\ op = "idle"
    /\ \E d \in SvgSources, o \in LayoutOptions :
        /\ op' = "svg"
        /\ args' = [qrData |-> d, options |-> o]
        /\ result' = formatComposers_svg(d, o)
    /\ UNCHANGED <<serverVars, pageVars>>

CallComposeWithTitle ==
    /\ op = "idle"
    /\ \E i \in SvgInfos, t \in TitleConfigs, c \in CompositionConfigs :
        /\ op' = "composeWithTitle"
        /\ args' = [svgInfo |-> i, titleConfig |-> t, compositionConfig |-> c]
        /\ result' = composeWithTitle(i, t, c)
    /\ UNCHANGED <<serverVars, pageVars>>

CallGenerator ==
    /\ op = "idle"
    /\ \E n \in GeneratorNames, o \in GeneratorOptions,
          c \in GeneratorCompositions, e \in GeneratorEnvs :
        /\ op' = "qrGenerators"
        /\ args' = [name |-> n, text |-> "hello", options |-> o,
                    compositionOptions |-> c, env |-> e]
        /\ result' = qrGenerators(n, "hello", o, c, e)
    /\ UNCHANGED <<serverVars, pageVars>>

CallParseSVG ==
    /\ op = "idle"
    /\ \E d \in ParseSources :
        /\ op' = "parseSVG"
        /\ args' = [svgString |-> d]
        /\ result' = parseSVG(d)
    /\ UNCHANGED <<serverVars, pageVars>>

CallEstimateTextDimensions ==
    /\ op = "idle"
    /\ \E t \in TextConfigs :
        /\ op' = "estimateTextDimensions"
        /\ args' = [textConfig |-> t]
        /\ result' = [threw |-> FALSE, value |-> estimateTextDimensions(t)]
    /\ UNCHANGED <<serverVars, pageVars>>

\* The caller takes the result; the next call starts afresh (nothing is kept
\* between calls).
Return ==
    /\ op # "idle"
    /\ op' = "idle"
    /\ args' = NoOpts
    /\ result' = [status |-> "none"]
    /\ UNCHANGED <<serverVars, pageVars>>

Next ==
    \/ CallCreateComposedImage
    \/ CallPng
    \/ CallJpg
    \/ CallBase64
    \/ CallSvg
    \/ CallComposeWithTitle
    \/ CallGenerator
    \/ CallParseSVG
    \/ CallEstimateTextDimensions
    \/ Return

Spec == Init /\ [][Next]_vars

----------------------------------------------------------------------------
(* Requests to the server *)

\* The hours that pass between two requests.
Pauses == {12, 14}

\* The clock moves on between two requests.
Tick ==
    /\ req.pc = "idle"
    /\ \E hours \in Pauses :
        /\ now + hours <= MaxClock
        /\ now' = now + hours
    /\ UNCHANGED <<store, req, res, client>>
    /\ UNCHANGED <<callVars, pageVars>>

\* A request for the page or one of its files: the session middleware loads
\* the session or makes a new one, express.static answers, and the session is
\* stored (saveUninitialized).
GetPage ==
    /\ req.pc = "idle"
    /\ \E cookie \in Cookies :
        LET purged == Purged(cookie, store, now)
            free == SessionIds \ DOMAIN purged
        IN IF KnownSession(cookie, store, now)
           THEN store' = Saved(store, cookie.sid, store[cookie.sid].session, now)
           ELSE /\ free # {}
                /\ store' = Saved(purged, CHOOSE i \in free : \A j \in free : i <= j,
                                  NoOpts, now)
    /\ UNCHANGED <<now, req, res, client>>
    /\ UNCHANGED <<callVars, pageVars>>

\* POST /generate-qr arrives: the session middleware loads the session of the
\* cookie, or makes a new, empty one.
Receive ==
    /\ req.pc = "idle"
    /\ \E cookie \in Cookies, body \in Bodies :
        LET purged == Purged(cookie, store, now)
            free == SessionIds \ DOMAIN purged
        IN IF KnownSession(cookie, store, now)
           THEN /\ req' = [pc |-> "received", cookie |-> cookie, sid |-> cookie.sid,
                           fresh |-> FALSE, session |-> store[cookie.sid].session,
                           body |-> body]
                /\ store' = store
           ELSE /\ free # {}
                /\ req' = [pc |-> "received", cookie |-> cookie,
                           sid |-> CHOOSE i \in free : \A j \in free : i <= j,
                           fresh |-> TRUE, session |-> NoOpts, body |-> body]
                /\ store' = purged
    /\ UNCHANGED <<now, res, client>>
    /\ UNCHANGED <<callVars, pageVars>>

\* validateSession: initialises the session, then either destroys an expired
\* one (it is dropped from the store and not stored again) and answers 401,
\* or calls next().
ValidateSession ==
    /\ req.pc = "received"
    /\ LET session == InitialiseSession(req.session, req.sid, now)
       IN IF SessionExpired(session, now)
          THEN /\ store' = Without(store, req.sid)
               /\ req' = [req EXCEPT !.pc = "responded", !.session = session]
               /\ res' = [status |-> 401, body |-> [error |-> "Sesion expirada"],
                          invoked |-> [kind |-> "none"]]
          ELSE /\ req' = [req EXCEPT !.pc = "validated", !.session = session]
               /\ UNCHANGED <<store, res>>
    /\ UNCHANGED <<now, client>>
    /\ UNCHANGED <<callVars, pageVars>>

\* The handler of POST /generate-qr runs to its response; the session is
\* stored as the response ends.
GenerateQr ==
    /\ req.pc = "validated"
    /\ \E env \in ServerEnvs :
        /\ res' = generateQr(req.body, env)
        /\ req' = [req EXCEPT !.pc = "responded"] @@ [env |-> env]
    /\ store' = Saved(store, req.sid, req.session, now)
    /\ UNCHANGED <<now, client>>
    /\ UNCHANGED <<callVars, pageVars>>

\* handleGeneration of the page after a successful response: the data and the
\* format are kept and the display handler of the format is run.
DisplayQR ==
    /\ req.pc = "responded"
    /\ res.status = 200
    /\ Has(req.body, "format") /\ req.body["format"] \in FormFormats
    /\ ~client.shown
    /\ client' = [shown |-> TRUE,
                  currentQRData |-> res.body.data,
                  currentFormat |-> req.body["format"],
                  container |-> display(getHandler(req.body["format"]), res.body.data),
                  downloaded |-> FALSE]
    /\ UNCHANGED <<now, store, req, res>>
    /\ UNCHANGED <<callVars, pageVars>>

\* handleDownload: the download handler of the current format is run on the
\* current data.
HandleDownload ==
    /\ client.shown
    /\ ~client.downloaded
    /\ client' = [client EXCEPT
                    !.downloaded = TRUE] @@
                 [link |-> download(getHandler(client.currentFormat),
                                    client.currentQRData, client.currentFormat)]
    /\ UNCHANGED <<now, store, req, res>>
    /\ UNCHANGED <<callVars, pageVars>>

\* The exchange is over; the next request starts with a page reloaded.
Finish ==
    /\ req.pc = "responded"
    /\ req' = NoRequest
    /\ res' = NoResponse
    /\ client' = NoPage
    /\ UNCHANGED <<now, store>>
    /\ UNCHANGED <<callVars, pageVars>>

ServerNext ==
    \/ Tick
    \/ GetPage
    \/ Receive
    \/ ValidateSession
    \/ GenerateQr
    \/ DisplayQR
    \/ HandleDownload
    \/ Finish

ServerSpec == Init /\ [][ServerNext]_vars

----------------------------------------------------------------------------
(* The page: panels, timers and the current code *)

Panels == {"loading", "result", "error"}

\* The 'hidden' class of the three panels, as the markup may give it.
Markups == [Panels -> BOOLEAN]

\* Variant of showLoading that leaves the error panel as it is.
showLoading_KeepError(hidden) ==
    [hidden EXCEPT !["result"] = TRUE, !["loading"] = FALSE]

\* uiState.showLoading: hide error and result, show loading.
showLoading(hidden) ==
    [hidden EXCEPT !["error"] = TRUE, !["result"] = TRUE, !["loading"] = FALSE]

\* uiState.showResult: hide error and loading, show result.
showResult(hidden) ==
    [hidden EXCEPT !["error"] = TRUE, !["loading"] = TRUE, !["result"] = FALSE]

\* The callback that uiState.showError defers by 100 ms: hide loading and
\* result, show error.
showErrorCallback(hidden) ==
    [hidden EXCEPT !["loading"] = TRUE, !["result"] = TRUE, !["error"] = FALSE]

\* uiState.hideAll
hideAll(hidden) == [p \in Panels |-> TRUE]

\* `isValid: Boolean(data.text)`
validate(data) == data.text # ""

\* The copy button as the markup gives it.
CopyButton == [text |-> "label", background |-> "none"]

\* buttonStateUtils.temporaryUpdate: the text and the background of the
\* button at the call are kept for the timer, and the button is changed.
temporaryUpdate(button, text, color) ==
    [button |-> [text |-> text, background |-> color],
     timer |-> [originalText |-> button.text, originalColor |-> button.background]]

\* `currentQRData = null`
NoData == 0

\* Nothing is rendered in #qr-display.
NoDisplay == [data |-> NoData, format |-> "none"]

\* The formats chosen in the form of the page.
PageFormats == {"png", "svg"}

\* The form as submitted: a text, possibly empty after trim, and a format.
Forms == [text : {"", "hello"}, format : PageFormats]

\* DOMContentLoaded: qrApp.init() registers the listeners and hides all.
Load ==
    /\ ~page.ready
    /\ \E markup \in Markups :
        page' = [ready |-> TRUE,
                 hidden |-> hideAll(markup),
                 errorText |-> "",
                 currentQRData |-> NoData,
                 currentFormat |-> "none",
                 qrDisplay |-> NoDisplay,
                 pending |-> {},
                 delays |-> <<>>,
                 errorTimers |-> <<>>,
                 copyBtn |-> CopyButton,
                 copyTimers |-> <<>>,
                 downloaded |-> NoDisplay,
                 submissions |-> 0,
                 copies |-> 0,
                 last |-> "hideAll"]
    /\ UNCHANGED <<callVars, serverVars>>

\* handleGeneration up to its first await: an invalid form calls showError
\* and returns; a valid one shows the loading panel and sends the request.
Submit ==
    /\ page.ready
    /\ page.submissions < MaxSubmissions
    /\ \E form \in Forms :
        IF ~validate(form)
        THEN page' = [page EXCEPT
                        !.submissions = @ + 1,
                        !.errorTimers = Append(@, "invalid"),
                        !.last = "showError"]
        ELSE page' = [page EXCEPT
                        !.submissions = @ + 1,
                        !.hidden = showLoading(@),
                        !.pending = @ \cup {[id |-> page.submissions + 1,
                                             format |-> form.format]},
                        !.last = "showLoading"]
    /\ UNCHANGED <<callVars, serverVars>>

\* The response of a pending request arrives with success: the data and the
\* format are kept, and the 3-second delay starts.
ResponseSuccess ==
    /\ page.ready
    /\ \E r \in page.pending :
        page' = [page EXCEPT
                   !.pending = @ \ {r},
                   !.currentQRData = r.id,
                   !.currentFormat = r.format,
                   !.delays = Append(@, [data |-> r.id, format |-> r.format])]
    /\ UNCHANGED <<callVars, serverVars>>

\* The response of a pending request is an error, or the request fails:
\* showError.
ResponseFailure ==
    /\ page.ready
    /\ \E r \in page.pending :
        page' = [page EXCEPT
                   !.pending = @ \ {r},
                   !.errorTimers = Append(@, "failed"),
                   !.last = "showError"]
    /\ UNCHANGED <<callVars, serverVars>>

\* The oldest 3-second delay is over: displayQR renders the data of its own
\* response, then showResult.
DelayElapsed ==
    /\ page.ready
    /\ page.delays # <<>>
    /\ page' = [page EXCEPT
                  !.delays = Tail(@),
                  !.qrDisplay = Head(page.delays),
                  !.hidden = showResult(@),
                  !.last = "showResult"]
    /\ UNCHANGED <<callVars, serverVars>>

\* The oldest deferred callback of showError runs.
ErrorCallback ==
    /\ page.ready
    /\ page.errorTimers # <<>>
    /\ page' = [page EXCEPT
                  !.errorTimers = Tail(@),
                  !.errorText = Head(page.errorTimers),
                  !.hidden = showErrorCallback(@),
                  !.last = "showErrorCallback"]
    /\ UNCHANGED <<callVars, serverVars>>

\* handleDownload, by a click on the button of the result panel.
ClickDownload ==
    /\ page.ready
    /\ ~page.hidden["result"]
    /\ page.currentQRData # NoData /\ page.currentFormat # "none"
    /\ page.downloaded # [data |-> page.currentQRData, format |-> page.currentFormat]
    /\ page' = [page EXCEPT
                  !.downloaded = [data |-> page.currentQRData,
                                  format |-> page.currentFormat]]
    /\ UNCHANGED <<callVars, serverVars>>

\* handleCopy, by a click on the button of the result panel: the clipboard
\* takes the data and the button is updated for 2 seconds, or the clipboard
\* refuses and showError is called.
ClickCopy ==
    /\ page.ready
    /\ ~page.hidden["result"]
    /\ page.currentQRData # NoData
    /\ page.copies < MaxCopies
    /\ \E written \in BOOLEAN :
        IF written
        THEN LET update == temporaryUpdate(page.copyBtn, "Copiado", "#28a745")
             IN page' = [page EXCEPT
                           !.copies = @ + 1,
                           !.copyBtn = update.button,
                           !.copyTimers = Append(@, update.timer)]
        ELSE page' = [page EXCEPT
                        !.copies = @ + 1,
                        !.errorTimers = Append(@, "clipboard"),
                        !.last = "showError"]
    /\ UNCHANGED <<callVars, serverVars>>

\* The oldest 2-second timer of temporaryUpdate fires.
CopyTimer ==
    /\ page.ready
    /\ page.copyTimers # <<>>
    /\ page' = [page EXCEPT
                  !.copyTimers = Tail(@),
                  !.copyBtn = [text |-> Head(page.copyTimers).originalText,
                               background |-> Head(page.copyTimers).originalColor]]
    /\ UNCHANGED <<callVars, serverVars>>

PageNext ==
    \/ Load
    \/ Submit
    \/ ResponseSuccess
    \/ ResponseFailure
    \/ DelayElapsed
    \/ ErrorCallback
    \/ ClickDownload
    \/ ClickCopy
    \/ CopyTimer

PageSpec == Init /\ [][PageNext]_vars

----------------------------------------------------------------------------
(* Vocabulary of the properties *)

\* The title is absent, empty or made of whitespace only.
AbsentOrWhitespace(o) ==
    ~Has(o, "title") \/ \A i \in 1..Len(o["title"]) : o["title"][i] = " "

RasterOps == {"createComposedImage", "png", "jpg", "base64"}

\* Decoding, the strategy or the encoding throws in this raster call.
RasterStepThrows == ~args.qrBuffer.decodable \/ args.env.fault # "none"

\* The draw call of the given kind on a canvas.
DrawCall(canvas, kind) ==
    canvas.drawn[CHOOSE i \in 1..Len(canvas.drawn) : canvas.drawn[i].call = kind]

\* The child element with the given tag of a composed document.
Child(doc, tag) ==
    doc.children[CHOOSE i \in 1..Len(doc.children) : doc.children[i].tag = tag]

\* The call returned a newly composed artifact.
ComposedRaster ==
    /\ op = "createComposedImage"
    /\ result.status = "resolved"
    /\ result.value.id = "composed"
ComposedSvg ==
    /\ op = "svg"
    /\ result.status = "resolved"
    /\ result.value.id = "composed"
ComposedDirect == op = "composeWithTitle" /\ ~result.threw

----------------------------------------------------------------------------
(* Properties *)

\* C1: with a title that is absent, empty or whitespace-only,
\* createComposedImage resolves to the very buffer it was given and
\* formatComposers.svg to the very markup it was given, and neither attempts a
\* decode, parse or composition step.
C1_NoOpIdentity ==
    /\ (op = "createComposedImage" /\ AbsentOrWhitespace(args.options))
          => result = Resolved(args.qrBuffer, <<>>)
    /\ (op = "svg" /\ AbsentOrWhitespace(args.options))
          => result = Resolved(args.qrData, <<>>)

\* A whitespace-only title with a buffer that could not even be decoded.
C1_Witness ==
    /\ op = "createComposedImage"
    /\ Has(args.options, "title")
    /\ args.options["title"] = <<" ">>
    /\ ~args.qrBuffer.decodable
    /\ result.value = args.qrBuffer

\* C2: with a non-blank title createComposedImage always resolves: to the
\* original buffer when decoding, the strategy or encoding throws, and to a
\* newly encoded PNG buffer otherwise.
C2_RasterDegradation ==
    (op = "createComposedImage" /\ ~AbsentOrWhitespace(args.options))
       => /\ result.status = "resolved"
          /\ RasterStepThrows => result.value = args.qrBuffer
          /\ ~RasterStepThrows
                => /\ result.value.id = "composed"
                   /\ result.value # args.qrBuffer
                   /\ result.value.decodable

\* The encoder throws after the strategy ran, and the original comes back.
C2_Witness ==
    /\ op = "createComposedImage"
    /\ ~AbsentOrWhitespace(args.options)
    /\ args.env.fault = "toBuffer"
    /\ result.status = "resolved"
    /\ result.value = args.qrBuffer

\* C3: formatComposers.png, jpg, base64 and svg never reject, whatever the
\* source artifact (an undecodable buffer included); when composition fails
\* the result carries the uncomposited artifact.
C3_NoComposerRaises ==
    (op \in {"png", "jpg", "base64", "svg"} /\ ~AbsentOrWhitespace(args.options))
       => /\ result.status = "resolved"
          /\ (op \in {"png", "base64"} /\ RasterStepThrows)
                => result.value.base64 = args.qrBuffer
          /\ (op = "svg" /\ (~args.qrData.wellFormed \/ args.qrData.root # "svg"))
                => result.value = args.qrData

\* C4: composeWithTitle throws exactly when its body throws (it rethrows), and
\* formatComposers.svg resolves to the original markup whenever parseSVG or
\* composeWithTitle throws (markup not well-formed, no root svg element).
C4_VectorFailureLayers ==
    /\ op = "composeWithTitle"
          => (result.threw <=> args.svgInfo.element.tag = "null")
    /\ (op = "svg" /\ ~AbsentOrWhitespace(args.options)
          /\ (~args.qrData.wellFormed \/ args.qrData.root # "svg"))
          => /\ result.status = "resolved"
             /\ result.value = args.qrData

\* A titled call on a document without a root svg element.
C4_Witness ==
    /\ op = "svg"
    /\ ~AbsentOrWhitespace(args.options)
    /\ args.qrData.wellFormed
    /\ args.qrData.root # "svg"
    /\ result.value = args.qrData
    /\ result.steps = <<"parseSVG">>

\* The title is drawn above the QR on a canvas: its y is less than the image's.
TitleAboveRaster(canvas) == DrawCall(canvas, "fillText").y < DrawCall(canvas, "drawImage").y
\* The title lies in the upper half of a composed document.
TitleAboveSvg(doc) == Child(doc, "text").y * 2 < doc.height

\* C5: in both back-ends the title is above the QR exactly when the position
\* is the string 'top'; 'bottom', an absent, an empty and an unrecognised
\* position all give the title-below layout, and none of them an error.
C5_PositionDispatch ==
    /\ (op = "createComposedImage" /\ ~AbsentOrWhitespace(args.options)
          /\ ~RasterStepThrows)
          => /\ ComposedRaster
             /\ TitleAboveRaster(result.value.canvas)
                   <=> (Has(args.options, "titlePosition")
                          /\ args.options["titlePosition"] = "top")
    /\ (op = "svg" /\ ~AbsentOrWhitespace(args.options)
          /\ args.qrData.wellFormed /\ args.qrData.root = "svg")
          => /\ ComposedSvg
             /\ TitleAboveSvg(result.value)
                   <=> (Has(args.options, "titlePosition")
                          /\ args.options["titlePosition"] = "top")
    /\ ComposedDirect
          => (TitleAboveSvg(result.value)
                <=> (Has(args.compositionConfig, "position")
                       /\ args.compositionConfig["position"] = "top"))

\* An unrecognised position composes with the title below the QR.
C5_Witness ==
    /\ ComposedRaster
    /\ Has(args.options, "titlePosition")
    /\ args.options["titlePosition"] = "left"
    /\ ~TitleAboveRaster(result.value.canvas)

\* The estimated width, in tenths of a pixel, of the title a document shows.
ShownTextWidth(doc) ==
    estimateTextDimensions([text |-> Child(doc, "text").content,
                            size |-> Child(doc, "text").fontSize,
                            font |-> Child(doc, "text").fontFamily]).width

\* C6: the composed output is max(qrSize, textWidth) + 2*padding wide and
\* qrSize + textHeight + 3*padding high, for both positions: the canvas of the
\* raster strategies, and in composeWithTitle (given a qrSize) the viewBox and
\* the root width and height attributes.
C6_TotalCanvasSize ==
    /\ ComposedRaster
          => LET canvas == result.value.canvas
                 qrSize == DrawCall(canvas, "drawImage").width
                 padding == Px(Default(args.options, "imagePadding", 20))
                 metrics == args.env.engine
             IN /\ qrSize = Px(Default(args.options, "qrSize", 256))
                /\ canvas.width = Max(qrSize, metrics.width) + 2 * padding
                /\ canvas.height = qrSize + metrics.height + 3 * padding
    /\ (ComposedDirect /\ Has(args.compositionConfig, "qrSize"))
          => LET doc == result.value
                 qrSize == Px(args.compositionConfig["qrSize"])
                 padding == Px(args.compositionConfig["padding"])
                 metrics == estimateTextDimensions(
                               [text |-> args.titleConfig.text,
                                size |-> args.titleConfig.style.size,
                                font |-> args.titleConfig.style.font])
             IN /\ doc.width = Max(qrSize, metrics.width) + 2 * padding
                /\ doc.height = qrSize + metrics.height + 3 * padding
                /\ doc.viewBox = <<0, 0, doc.width, doc.height>>

\* A title at the top that is wider than the QR, composed by composeWithTitle.
C6_Witness ==
    /\ ComposedDirect
    /\ Has(args.compositionConfig, "qrSize")
    /\ Has(args.compositionConfig, "position")
    /\ args.compositionConfig["position"] = "top"
    /\ args.compositionConfig["padding"] > 0
    /\ ShownTextWidth(result.value) > Px(args.compositionConfig["qrSize"])
    /\ result.value.width = ShownTextWidth(result.value)
                              + 2 * Px(args.compositionConfig["padding"])

\* C7: given the same qrSize, padding, position and text metrics, the raster
\* strategy and composeWithTitle compute the same total width and height, the
\* same title centre and the same origin of the QR box.
C7_BackendAgreement ==
    (ComposedDirect /\ Has(args.compositionConfig, "qrSize"))
       => LET doc == result.value
              cc == args.compositionConfig
              tc == args.titleConfig
              metrics == estimateTextDimensions(
                            [text |-> tc.text, size |-> tc.style.size,
                             font |-> tc.style.font])
              canvas == SelectStrategy(
                            Default(cc, "position", "bottom"),
                            [qrSize |-> cc["qrSize"], padding |-> cc["padding"],
                             backgroundColor |-> "#FFFFFF"],
                            "qrImage", tc, metrics)
              title == DrawCall(canvas, "fillText")
              image == DrawCall(canvas, "drawImage")
          IN /\ canvas.width = doc.width
             /\ canvas.height = doc.height
             /\ title.x = Child(doc, "text").x
             /\ title.y = Child(doc, "text").y
             /\ image.x = doc.locals.qrX
             /\ image.y = doc.locals.qrY

\* A title below the QR with no padding, laid out by both back-ends.
C7_Witness ==
    /\ ComposedDirect
    /\ Has(args.compositionConfig, "qrSize")
    /\ ~Has(args.compositionConfig, "position")
    /\ args.compositionConfig["padding"] = 0
    /\ Len(args.titleConfig.text) > 0
    /\ Child(result.value, "text").y > result.value.locals.qrY

\* C8: in createComposedImage and in formatComposers.svg an absent option
\* takes its default (titlePosition 'bottom', titleSize 24, titleColor
\* '#333333', titleFont 'Arial', backgroundColor '#FFFFFF', imagePadding 20,
\* qrSize 256) and a supplied one, imagePadding 0 included, is used as
\* supplied, so both paths use the same padding, size, position and qrSize.
C8_OptionDefaulting ==
    /\ ComposedRaster
          => LET o == args.options
                 canvas == result.value.canvas
                 title == DrawCall(canvas, "fillText")
                 image == DrawCall(canvas, "drawImage")
             IN /\ title.font = <<Default(o, "titleSize", 24),
                                  Default(o, "titleFont", "Arial")>>
                /\ title.fillStyle = Default(o, "titleColor", "#333333")
                /\ canvas.backgroundColor = Default(o, "backgroundColor", "#FFFFFF")
                /\ image.width = Px(Default(o, "qrSize", 256))
                /\ canvas.height = image.height + args.env.engine.height
                                     + 3 * Px(Default(o, "imagePadding", 20))
                /\ TitleAboveRaster(canvas)
                      <=> Default(o, "titlePosition", "bottom") = "top"
    /\ ComposedSvg
          => LET o == args.options
                 doc == result.value
                 text == Child(doc, "text")
             IN /\ text.fontSize = Default(o, "titleSize", 24)
                /\ text.fontFamily = Default(o, "titleFont", "Arial")
                /\ text.fill = Default(o, "titleColor", "#333333")
                /\ doc.locals.qrWidth = Px(Default(o, "qrSize", 256))
                /\ doc.height = doc.locals.qrHeight + Px(text.fontSize)
                                  + 3 * Px(Default(o, "imagePadding", 20))
                /\ TitleAboveSvg(doc)
                      <=> Default(o, "titlePosition", "bottom") = "top"

\* The viewBox the source markup declares, or the default one.
\* The numbers written in an attribute value, in order.
RECURSIVE NumbersOf(_)
NumbersOf(attr) ==
    IF attr = <<>> THEN <<>>
    ELSE IF Head(attr) \in Numerals
    THEN <<NumeralValue(Head(attr))>> \o NumbersOf(Tail(attr))
    ELSE NumbersOf(Tail(attr))

SourceViewBox(qrData) ==
    IF Has(qrData.attrs, "viewBox")
    THEN NumbersOf(qrData.attrs["viewBox"])
    ELSE <<0, 0, 256, 256>>

\* C9 as stated: the composed output is strictly higher than the source
\* artifact (raster: the QR size; vector: the source viewBox height) and
\* strictly wider than it whenever the text is wider than the QR.
C9_GrowthOverSource ==
    /\ ComposedRaster
          => LET canvas == result.value.canvas
                 image == DrawCall(canvas, "drawImage")
             IN /\ canvas.height > image.height
                /\ args.env.engine.width > image.width => canvas.width > image.width
    /\ ComposedSvg
          => LET doc == result.value
                 vb == SourceViewBox(args.qrData)
             IN /\ doc.height > Px(vb[4])
                /\ ShownTextWidth(doc) > doc.locals.qrWidth => doc.width > Px(vb[3])
    /\ ComposedDirect
          => LET doc == result.value
                 vb == args.svgInfo.viewBox
             IN /\ doc.height > Px(vb.height)
                /\ ShownTextWidth(doc) > doc.locals.qrWidth => doc.width > Px(vb.width)

\* C9 as amended: the composed output is strictly higher than the size the
\* QR is displayed at (the qrSize when one is configured, the source viewBox
\* height only when none is), and strictly wider than it whenever the text is
\* wider than it.
C9_GrowthOverDisplaySize ==
    /\ ComposedRaster
          => LET canvas == result.value.canvas
                 qrSize == Px(Default(args.options, "qrSize", 256))
             IN /\ canvas.height > qrSize
                /\ args.env.engine.width > qrSize => canvas.width > qrSize
    /\ ComposedSvg
          => LET doc == result.value
                 qrSize == Px(Default(args.options, "qrSize", 256))
             IN /\ doc.height > qrSize
                /\ ShownTextWidth(doc) > qrSize => doc.width > qrSize
    /\ ComposedDirect
          => LET doc == result.value
                 cc == args.compositionConfig
                 qrWidth == IF Has(cc, "qrSize") THEN Px(cc["qrSize"])
                            ELSE Px(args.svgInfo.viewBox.width)
                 qrHeight == IF Has(cc, "qrSize") THEN Px(cc["qrSize"])
                             ELSE Px(args.svgInfo.viewBox.height)
             IN /\ doc.height > qrHeight
                /\ ShownTextWidth(doc) > qrWidth => doc.width > qrWidth

\* A source whose viewBox is larger than the composed document, with a title
\* wider than the configured QR size and no padding.
C9_Witness ==
    /\ ComposedDirect
    /\ Has(args.compositionConfig, "qrSize")
    /\ args.compositionConfig["padding"] = 0
    /\ Px(args.svgInfo.viewBox.height) > result.value.height
    /\ ShownTextWidth(result.value) > Px(args.compositionConfig["qrSize"])
    /\ result.value.width > Px(args.compositionConfig["qrSize"])

\* C10: with position 'top' the title's vertical coordinate is strictly less
\* than the one the QR graphic is placed at, and with any other position it is
\* strictly greater: the title draw y and the QR draw y on the canvas, the text
\* node's y and the y of the QR group's translate in the document.
C10_VerticalOrder ==
    /\ ComposedRaster
          => LET canvas == result.value.canvas
                 top == Default(args.options, "titlePosition", "bottom") = "top"
             IN IF top
                THEN DrawCall(canvas, "fillText").y < DrawCall(canvas, "drawImage").y
                ELSE DrawCall(canvas, "fillText").y > DrawCall(canvas, "drawImage").y
    /\ ComposedSvg
          => LET doc == result.value
                 top == Default(args.options, "titlePosition", "bottom") = "top"
             IN IF top
                THEN Child(doc, "text").y < Child(doc, "g").transform.translate[2]
                ELSE Child(doc, "text").y > Child(doc, "g").transform.translate[2]
    /\ ComposedDirect
          => LET doc == result.value
                 top == Default(args.compositionConfig, "position", "bottom") = "top"
             IN IF top
                THEN Child(doc, "text").y < Child(doc, "g").transform.translate[2]
                ELSE Child(doc, "text").y > Child(doc, "g").transform.translate[2]

\* The document has a background rectangle as its first child.
HasRect(doc) == \E i \in 1..Len(doc.children) : doc.children[i].tag = "rect"

C13_TextEstimate ==
    op = "estimateTextDimensions"
       => LET t == args.textConfig
          IN /\ result.value.width * 10 = Len(t.text) * Px(t.size) * 6
             /\ result.value.height = Px(t.size)
             /\ t.text = <<>> => result.value.width = 0
             /\ \A other \in TextConfigs :
                   other.text = t.text /\ other.size = t.size
                      => estimateTextDimensions(other) = result.value

\* A two-character text at size 24 is estimated at 28.8 by 24 pixels.
C13_Witness ==
    /\ op = "estimateTextDimensions"
    /\ Len(args.textConfig.text) = MaxTitleLen
    /\ args.textConfig.size = 24
    /\ args.textConfig.font = "Courier New"
    /\ result.value.width = Len(args.textConfig.text) * 144
    /\ result.value.height = 240

SuccessfulParse == op = "parseSVG" /\ ~result.threw

\* The attribute is four numerals separated by single spaces.
SingleSpaced(attr) ==
    /\ Len(attr) = 7
    /\ \A i \in 1..7 : IF i % 2 = 1 THEN attr[i] \in Numerals ELSE attr[i] = " "

\* C14 as stated: parseSVG returns viewBox equal to the four numbers of the
\* root's viewBox attribute when it is present and {0, 0, 256, 256} when it is
\* absent, and originalWidth / originalHeight equal viewBox.width / height.
C14_ViewBoxOfAttribute ==
    SuccessfulParse
       => LET a == args.svgString.attrs
              v == result.value
          IN /\ Has(a, "viewBox") /\ Len(NumbersOf(a["viewBox"])) = 4
                   => v.viewBox = [x |-> NumbersOf(a["viewBox"])[1],
                                   y |-> NumbersOf(a["viewBox"])[2],
                                   width |-> NumbersOf(a["viewBox"])[3],
                                   height |-> NumbersOf(a["viewBox"])[4]]
             /\ ~Has(a, "viewBox")
                   => v.viewBox = [x |-> 0, y |-> 0, width |-> 256, height |-> 256]
             /\ v.originalWidth = v.viewBox.width
             /\ v.originalHeight = v.viewBox.height

\* C14 as amended: the viewBox is the four numbers of the attribute when the
\* attribute is four numbers separated by single spaces, {0, 0, 256, 256}
\* when the attribute is absent or empty, and originalWidth / originalHeight
\* always equal viewBox.width / viewBox.height.
C14_ViewBoxOfSpacedAttribute ==
    SuccessfulParse
       => LET a == args.svgString.attrs
              v == result.value
          IN /\ Has(a, "viewBox") /\ SingleSpaced(a["viewBox"])
                   => v.viewBox = [x |-> NumeralValue(a["viewBox"][1]),
                                   y |-> NumeralValue(a["viewBox"][3]),
                                   width |-> NumeralValue(a["viewBox"][5]),
                                   height |-> NumeralValue(a["viewBox"][7])]
             /\ ~Has(a, "viewBox") \/ a["viewBox"] = <<>>
                   => v.viewBox = [x |-> 0, y |-> 0, width |-> 256, height |-> 256]
             /\ v.originalWidth = v.viewBox.width
             /\ v.originalHeight = v.viewBox.height

\* A viewBox of "4 4 29 256" is parsed into x 4, y 4, width 29, height 256.
C14_Witness ==
    /\ SuccessfulParse
    /\ Has(args.svgString.attrs, "viewBox")
    /\ result.value.viewBox = [x |-> 4, y |-> 4, width |-> 29, height |-> 256]
    /\ result.value.originalWidth = 29
    /\ result.value.originalHeight = 256

Generated(names) ==
    /\ op = "qrGenerators"
    /\ args.name \in names
    /\ result.status = "resolved"

\* C12: whenever they return, formatComposers.jpg and qrGenerators.jpg / jpeg
\* give a string that begins with 'data:image/jpeg;base64,', formatComposers.png
\* and qrGenerators.png one that begins with 'data:image/png;base64,', and
\* formatComposers.base64 and qrGenerators.base64 one that does not begin with
\* 'data:', with or without a title.
C12_WirePrefixes ==
    /\ op = "png" /\ result.status = "resolved"
          => result.value.prefix = "data:image/png;base64,"
    /\ op = "jpg" /\ result.status = "resolved"
          => result.value.prefix = "data:image/jpeg;base64,"
    /\ op = "base64" /\ result.status = "resolved" => result.value.prefix = ""
    /\ Generated({"png"}) => result.value.prefix = "data:image/png;base64,"
    /\ Generated({"jpg", "jpeg"}) => result.value.prefix = "data:image/jpeg;base64,"
    /\ Generated({"base64"}) => result.value.prefix = ""

\* The title of the composition options is absent, empty or whitespace-only.
BlankTitle(compositionOptions) ==
    compositionOptions = Null \/ AbsentOrWhitespace(compositionOptions)

\* C15: for a title that is absent, empty or whitespace-only qrGenerators.svg
\* returns the encoder's markup with the root width and height set to
\* options.width (when present) and no text node; for a non-blank title it
\* returns a composed document whose text node carries the title and the
\* requested font-family, font-size and fill.
C15_SvgGeneratorPaths ==
    Generated({"svg"})
       => LET c == args.compositionOptions
              v == result.value
          IN IF BlankTitle(c)
             THEN /\ v.id = "qrData"
                  /\ v.inner = "qr-modules"
                  /\ Has(args.options, "width")
                        => /\ Has(v.attrs, "width") /\ Has(v.attrs, "height")
                           /\ v.attrs["width"] = args.options["width"]
                           /\ v.attrs["height"] = args.options["width"]
             ELSE /\ v.id = "composed"
                  /\ Child(v, "text").content = trim(c["title"])
                  /\ Child(v, "text").fontFamily = StrOr(c, "titleFont", DefaultTitleFont)
                  /\ Child(v, "text").fontSize = NumOr(c, "titleSize", DefaultTitleSize)
                  /\ Child(v, "text").fill = StrOr(c, "titleColor", DefaultTitleColor)

\* C20: with title height h, padding p and QR size q (lengths in tenths of a
\* pixel), the title-top layout puts the title's vertical centre at p + h/2 and
\* the QR's top at p + h + p, and the title-bottom layout puts the QR's top at
\* p and the title's vertical centre at p + q + p + h/2, on the canvas of the
\* raster strategies and in the layout of composeWithTitle before its scale
\* adjustment.
C20_VerticalPlacement ==
    /\ ComposedRaster
          => LET canvas == result.value.canvas
                 h == args.env.engine.height
                 p == Px(Default(args.options, "imagePadding", DefaultImagePadding))
                 q == Px(Default(args.options, "qrSize", DefaultQrSize))
                 titleY == DrawCall(canvas, "fillText").y
                 qrTop == DrawCall(canvas, "drawImage").y
             IN IF Default(args.options, "titlePosition", "bottom") = "top"
                THEN 2 * titleY = 2 * p + h /\ qrTop = p + h + p
                ELSE qrTop = p /\ 2 * titleY = 2 * (p + q + p) + h
    /\ ComposedDirect
          => LET doc == result.value
                 cc == args.compositionConfig
                 h == Px(args.titleConfig.style.size)
                 p == Px(cc["padding"])
                 q == Px(NumOr(cc, "qrSize", args.svgInfo.viewBox.height))
                 titleY == Child(doc, "text").y
                 qrTop == doc.locals.qrY
             IN IF Default(cc, "position", "bottom") = "top"
                THEN 2 * titleY = 2 * p + h /\ qrTop = p + h + p
                ELSE qrTop = p /\ 2 * titleY = 2 * (p + q + p) + h
    /\ ComposedSvg
          => LET doc == result.value
                 h == Px(Child(doc, "text").fontSize)
                 p == Px(NumOr(args.options, "imagePadding", DefaultImagePadding))
                 q == doc.locals.qrHeight
                 titleY == Child(doc, "text").y
                 qrTop == doc.locals.qrY
             IN IF StrOr(args.options, "titlePosition", "bottom") = "top"
                THEN 2 * titleY = 2 * p + h /\ qrTop = p + h + p
                ELSE qrTop = p /\ 2 * titleY = 2 * (p + q + p) + h

\* A title-top vector layout with padding 15 and title size 20: the title is
\* centred at 25 and the QR box starts at 50.
C20_Witness ==
    /\ ComposedDirect
    /\ Has(args.compositionConfig, "position")
    /\ args.compositionConfig["position"] = "top"
    /\ args.compositionConfig["padding"] = 15
    /\ args.titleConfig.style.size = 20
    /\ Child(result.value, "text").y = Px(25)
    /\ result.value.locals.qrY = Px(50)

----------------------------------------------------------------------------
(* Properties of the server and of the page *)

\* A POST /generate-qr has been answered.
Responded == req.pc = "responded"

\* The body of the request has no text: absent or empty.
NoText == ~Has(req.body, "text") \/ req.body["text"] = ""

\* The session of the request is older than 24 hours.
Overage == now - req.session["createdAt"] > 24

\* C16 as stated: a POST /generate-qr whose body has no text is answered with
\* status 400 and an error, and no generator is invoked for it, whatever the
\* other fields are.
C16_NoTextIs400 ==
    Responded /\ NoText
       => /\ res.status = 400
          /\ Has(res.body, "error")
          /\ res.invoked.kind = "none"

\* C16 as amended: a request without text is answered with an error and no
\* generator is invoked for it, whatever the other fields are; the status is
\* 400, unless its session is older than 24 hours: then validateSession has
\* answered 401 before the text is looked at.
C16_NoTextIs400UnlessExpired ==
    Responded /\ NoText
       => /\ Has(res.body, "error")
          /\ res.invoked.kind = "none"
          /\ IF Overage THEN res.status = 401 ELSE res.status = 400

\* A request with an empty text, a format and a title is answered with 400.
C16_Witness ==
    /\ Responded
    /\ Has(req.body, "text") /\ req.body["text"] = ""
    /\ Has(req.body, "format") /\ req.body["format"] = "svg"
    /\ Has(req.body, "title") /\ req.body["title"] = <<"a">>
    /\ res.status = 400
    /\ res.body.error = "Text is required"
    /\ res.invoked.kind = "none"

\* The handler ran for a request with a text.
Served == Responded /\ ~NoText /\ res.status # 401

\* C17: a request with format png, jpg, jpeg, svg or base64 is served by that
\* format's generator, jpeg giving what jpg gives, and a request whose format
\* is absent or any other string is served by the PNG generator, so that its
\* data is a 'data:image/png;base64,' URI.
C17_FormatDispatch ==
    Served
       => LET named == Has(req.body, "format")
                         /\ req.body["format"] \in {"png", "jpg", "jpeg", "svg", "base64"}
          IN /\ named => res.invoked = [kind |-> "generator", name |-> req.body["format"]]
             /\ named /\ req.body["format"] = "jpeg"
                   => res.body = [generateQr([req.body EXCEPT !["format"] = "jpg"],
                                             req.env).body
                                     EXCEPT !.format = "jpeg"]
             /\ ~named
                   => /\ res.invoked.kind = "generator"
                      /\ res.invoked.name \in {"png", "default"}
                      /\ res.status = 200
                            => res.body.data.prefix = "data:image/png;base64,"

\* C18 as stated: a request with a text that arrives without a cookie or with
\* an unrecognised one gets a freshly initialised session (initialized = true,
\* a clientId, a createdAt) and completes with status 200 and success = true;
\* the handler only runs on a request whose session has initialized = true.
C18_FreshSessionCompletes200 ==
    /\ req.pc \in {"validated", "responded"} /\ req.fresh
          => /\ Has(req.session, "initialized") /\ req.session["initialized"]
             /\ Has(req.session, "clientId")
             /\ Has(req.session, "createdAt")
    /\ Responded /\ req.fresh /\ ~NoText
          => res.status = 200 /\ res.body.success
    /\ req.pc = "validated"
          => Has(req.session, "initialized") /\ req.session["initialized"]

\* C18 as amended: such a request gets a freshly initialised session and is
\* never refused by validateSession; it completes with status 200 and
\* success = true unless the generator throws, and with status 500 and an
\* error then; the handler only runs on a request whose session has
\* initialized = true.
C18_FreshSessionReachesHandler ==
    /\ req.pc \in {"validated", "responded"} /\ req.fresh
          => /\ Has(req.session, "initialized") /\ req.session["initialized"]
             /\ Has(req.session, "clientId")
             /\ Has(req.session, "createdAt") /\ req.session["createdAt"] = now
    /\ Responded /\ req.fresh /\ ~NoText
          => IF res.invoked.kind = "generator" /\ req.env.encoder.fails
             THEN res.status = 500 /\ Has(res.body, "error")
             ELSE res.status = 200 /\ res.body.success
    /\ Responded /\ req.fresh /\ res.status # 401
          => /\ req.sid \in DOMAIN store
             /\ store[req.sid].session = req.session
    /\ req.pc = "validated"
          => Has(req.session, "initialized") /\ req.session["initialized"]

\* A request with an unrecognised cookie has been given a session and
\* answered with 200.
C18_Witness ==
    /\ Responded
    /\ req.fresh
    /\ req.cookie.kind = "bogus"
    /\ ~NoText
    /\ res.status = 200
    /\ res.body.success
    /\ store[req.sid].session["initialized"]
    /\ store[req.sid].session["createdAt"] = now

\* The string is one PNG data URI: the prefix once, then the base64 text of a
\* PNG buffer.
SinglePngDataUri(parts) ==
    /\ Len(parts) = 2
    /\ parts[1] = "data:image/png;base64,"
    /\ parts[2].id \in {"qrBuffer", "composed"}

\* C19: for the base64 format, with or without a title, the data of the
\* response carries no 'data:' prefix, and the base64 display and download
\* handlers of the page prepend 'data:image/png;base64,' once: the image src
\* and the download href are a single PNG data URI.
C19_Base64HandOff ==
    /\ Responded /\ res.status = 200
       /\ Has(req.body, "format") /\ req.body["format"] = "base64"
          => /\ res.body.data.prefix = ""
             /\ res.body.data.base64.id \in {"qrBuffer", "composed"}
    /\ client.shown /\ client.currentFormat = "base64"
          => /\ client.container.tag = "img"
             /\ SinglePngDataUri(client.container.src)
             /\ client.downloaded => SinglePngDataUri(client.link.href)

\* A titled base64 response has been displayed and downloaded by the page.
C19_Witness ==
    /\ client.shown
    /\ client.currentFormat = "base64"
    /\ client.downloaded
    /\ Has(req.body, "title") /\ req.body["title"] = <<"a">>
    /\ client.currentQRData.base64.id = "composed"
    /\ client.link.href = <<"data:image/png;base64,", client.currentQRData.base64>>
    /\ client.container.src = client.link.href

----------------------------------------------------------------------------
(* Properties of the layout *)

\* C21: in both raster strategies and in composeWithTitle the title is
\* anchored (centred) at x = totalWidth/2 and the QR box occupies
\* [(totalWidth - qrSize)/2, (totalWidth + qrSize)/2], whether the text is
\* wider or narrower than the QR.
C21_HorizontalCentring ==
    /\ ComposedRaster
          => LET canvas == result.value.canvas
                 title == DrawCall(canvas, "fillText")
                 image == DrawCall(canvas, "drawImage")
             IN /\ title.textAlign = "center"
                /\ 2 * title.x = canvas.width
                /\ 2 * image.x = canvas.width - image.width
                /\ 2 * (image.x + image.width) = canvas.width + image.width
                /\ image.width = Px(Default(args.options, "qrSize", DefaultQrSize))
    /\ ComposedDirect \/ ComposedSvg
          => LET doc == result.value
                 title == Child(doc, "text")
                 box == doc.locals
             IN /\ title.textAnchor = "middle"
                /\ 2 * title.x = doc.width
                /\ 2 * box.qrX = doc.width - box.qrWidth
                /\ 2 * (box.qrX + box.qrWidth) = doc.width + box.qrWidth

\* A vector layout whose text is wider than the QR, and one whose text is
\* narrower: the QR box is inset in the first.
C21_Witness ==
    /\ ComposedDirect
    /\ ShownTextWidth(result.value) > result.value.locals.qrWidth
    /\ result.value.locals.qrX > Px(args.compositionConfig["padding"])
    /\ 2 * Child(result.value, "text").x = result.value.width

\* C22: the scale of the QR group's transform is max(qrWidth / viewBox.width,
\* 2), with qrWidth the configured qrSize when given and the source viewBox
\* width otherwise; it is never below 2.
C22_EnhancedScale ==
    ComposedDirect
       => LET cc == args.compositionConfig
              vbw == Px(args.svgInfo.viewBox.width)
              qrWidth == IF Has(cc, "qrSize") THEN Px(cc["qrSize"]) ELSE vbw
              scale == Child(result.value, "g").transform.scale
          IN /\ scale.den > 0
             /\ scale.num >= 2 * scale.den
             /\ scale.num * vbw >= qrWidth * scale.den
             /\ scale.num = 2 * scale.den \/ scale.num * vbw = qrWidth * scale.den

\* A qrSize of 100 over a viewBox 20 wide is drawn at scale 5.
C22_Witness ==
    /\ ComposedDirect
    /\ Has(args.compositionConfig, "qrSize")
    /\ args.compositionConfig["qrSize"] = 100
    /\ args.svgInfo.viewBox.width = 20
    /\ Child(result.value, "g").transform.scale.num
          = 5 * Child(result.value, "g").transform.scale.den

\* The graphic as drawn: the source viewBox region under translate(...)
\* scale(...), with its coordinates multiplied by the scale's denominator.
DrawnLeft(doc, vb) ==
    LET t == Child(doc, "g").transform
    IN t.translate[1] * t.scale.den + t.scale.num * Px(vb.x)
DrawnTop(doc, vb) ==
    LET t == Child(doc, "g").transform
    IN t.translate[2] * t.scale.den + t.scale.num * Px(vb.y)
DrawnWidth(doc, vb) == Child(doc, "g").transform.scale.num * Px(vb.width)
DrawnHeight(doc, vb) == Child(doc, "g").transform.scale.num * Px(vb.height)
Den(doc) == Child(doc, "g").transform.scale.den

\* C23: for every source viewBox {x, y, width, height}, qrSize, padding and
\* position, the centre of the graphic as drawn coincides with the centre of
\* its qrWidth x qrHeight box, (qrX + qrWidth/2, qrY + qrHeight/2).
C23_ScaledGraphicCentred ==
    ComposedDirect
       => LET doc == result.value
              vb == args.svgInfo.viewBox
              box == doc.locals
          IN /\ 2 * DrawnLeft(doc, vb) + DrawnWidth(doc, vb)
                   = (2 * box.qrX + box.qrWidth) * Den(doc)
             /\ 2 * DrawnTop(doc, vb) + DrawnHeight(doc, vb)
                   = (2 * box.qrY + box.qrHeight) * Den(doc)

\* C30: for every source viewBox, qrSize, padding and position, the bounding
\* box of the graphic as drawn lies within [0, totalWidth] x [0, totalHeight]
\* and does not overlap the vertical band of the title.
C30_GraphicInsideItsArea ==
    ComposedDirect
       => LET doc == result.value
              vb == args.svgInfo.viewBox
              den == Den(doc)
              left == DrawnLeft(doc, vb)
              top == DrawnTop(doc, vb)
              right == left + DrawnWidth(doc, vb)
              bottom == top + DrawnHeight(doc, vb)
              h == Px(args.titleConfig.style.size)
              bandTop == (2 * Child(doc, "text").y - h) * den
              bandBottom == (2 * Child(doc, "text").y + h) * den
          IN /\ 0 <= left /\ right <= doc.width * den
             /\ 0 <= top /\ bottom <= doc.height * den
             /\ 2 * bottom <= bandTop \/ bandBottom <= 2 * top

\* The number of children of the document with the given tag.
Count(doc, tag) ==
    Cardinality({i \in 1..Len(doc.children) : doc.children[i].tag = tag})

GivenTitle ==
    IF op = "composeWithTitle" THEN args.titleConfig.text ELSE trim(args.options["title"])

\* C29: for every non-blank title, including ones with markup characters,
\* the emitted document has exactly one text node, the text content read
\* from it equals the trimmed title, and no title character is read as markup.
C29_TitleIsData ==
    (ComposedDirect \/ ComposedSvg) /\ GivenTitle # <<>>
       => LET node == Child(result.value, "text")
          IN /\ Count(result.value, "text") = 1
             /\ CharacterData(node.content) = GivenTitle
             /\ \A i \in 1..Len(node.content) : node.content[i] \notin MarkupChars

----------------------------------------------------------------------------
(* Properties of the session *)

\* validateSession has run for the request at hand.
Validated == req.pc \in {"validated", "responded"}

\* The age of the session of the request, in hours.
SessionAge == now - req.session["createdAt"]

\* C25: a request whose session was created more than 24 hours ago is
\* answered with 401, its session is removed from the store and its handler
\* is not run; a request whose session is at most 24 hours old is passed to
\* the handler and is never answered with 401.
C25_SessionExpiry ==
    Validated
       => IF SessionAge > 24
          THEN /\ Responded
               /\ res.status = 401
               /\ req.sid \notin DOMAIN store
               /\ res.invoked.kind = "none"
               /\ ~Has(req, "env")
          ELSE /\ req.pc = "validated" => res = NoResponse
               /\ Responded => res.status # 401 /\ Has(req, "env")

\* A session of 26 hours is refused and dropped from the store.
C25_Witness ==
    /\ Responded
    /\ SessionAge = 26
    /\ res.status = 401
    /\ req.sid \notin DOMAIN store

\* A session of exactly 24 hours is served.
C25_WitnessBoundary ==
    /\ Responded
    /\ SessionAge = 24
    /\ res.status = 200

----------------------------------------------------------------------------
(* Properties of the page *)

\* The panels that lack the 'hidden' class.
Visible == {p \in Panels : ~page.hidden[p]}

\* C26: whenever the result panel is visible, the code rendered in the
\* display is the one held in currentQRData/currentFormat, on which Download
\* and Copy act.
C26_DisplayedIsCurrent ==
    page.ready /\ "result" \in Visible
       => page.qrDisplay = [data |-> page.currentQRData,
                            format |-> page.currentFormat]

\* C27: once no timer of the copy button is pending, its text and background
\* are those it had before the first click.
C27_CopyButtonRestored ==
    page.ready /\ page.copyTimers = <<>> => page.copyBtn = CopyButton

\* C28: at most one of the loading, result and error panels is visible, and
\* after hideAll with no callback of showError pending none is.
C28_PanelExclusivity ==
    page.ready
       => /\ Cardinality(Visible) <= 1
          /\ page.last = "hideAll" /\ page.errorTimers = <<>> => Visible = {}

\* A submission was made while the error of an earlier one was shown: the
\* loading panel has replaced the error panel.
C28_Witness ==
    /\ page.ready
    /\ page.last = "showLoading"
    /\ page.errorText = "failed"
    /\ Visible = {"loading"}

====
